---- MODULE Spec2Model ----
(***************************************************************************)
(* A model of moracle's name resolver (identify_card_name with its         *)
(* tokenizer split_string and cursor locator cursor_word, src/__init__.py) *)
(* and of its search predicate algebra (src/search.py), with its           *)
(* convenience predicates, the objects its calls construct, and the        *)
(* resolver's recursion step by step.                                      *)
(*                                                                         *)
(* Python strings are TLA+ strings; a character is a string of length 1.   *)
(* Offsets and word indexes keep Python's 0-based values, so the character *)
(* at offset p of s is SubSeq(s, p + 1, p + 1).  A dict is a function from *)
(* its keys to its values.                                                 *)
(***************************************************************************)
EXTENDS Integers, Sequences, FiniteSets, TLC

VARIABLES db, line, cursor_pos, words, word_index, result, pred, rs, pc, heap, stack

vars == <<db, line, cursor_pos, words, word_index, result, pred, rs, pc, heap, stack>>

(***************************************************************************)
(* Bounds of the model.                                                    *)
(***************************************************************************)
MaxLineLen == 5
MaxCatalog == 3

\* the characters lines are typed from: a letter in both cases and a
\* separator
Alphabet == {"a", "A", " "}

\* the tokenizer alone is also run on a digit and on a second separator
TokenizerAlphabet == Alphabet \cup {"0", ","}

(***************************************************************************)
(* Characters and strings.                                                 *)
(***************************************************************************)
LowerLetters == {"a", "b", "c", "d", "e", "f", "g", "h", "i", "j", "k", "l", "m",
                 "n", "o", "p", "q", "r", "s", "t", "u", "v", "w", "x", "y", "z"}
UpperLetters == {"A", "B", "C", "D", "E", "F", "G", "H", "I", "J", "K", "L", "M",
                 "N", "O", "P", "Q", "R", "S", "T", "U", "V", "W", "X", "Y", "Z"}
Digits == {"0", "1", "2", "3", "4", "5", "6", "7", "8", "9"}

word_characters == LowerLetters \cup UpperLetters \cup Digits

LowerTable ==
    ("A" :> "a") @@ ("B" :> "b") @@ ("C" :> "c") @@ ("D" :> "d") @@ ("E" :> "e") @@
    ("F" :> "f") @@ ("G" :> "g") @@ ("H" :> "h") @@ ("I" :> "i") @@ ("J" :> "j") @@
    ("K" :> "k") @@ ("L" :> "l") @@ ("M" :> "m") @@ ("N" :> "n") @@ ("O" :> "o") @@
    ("P" :> "p") @@ ("Q" :> "q") @@ ("R" :> "r") @@ ("S" :> "s") @@ ("T" :> "t") @@
    ("U" :> "u") @@ ("V" :> "v") @@ ("W" :> "w") @@ ("X" :> "x") @@ ("Y" :> "y") @@
    ("Z" :> "z")

\* the character at 0-based offset p of s
CharAt(s, p) == SubSeq(s, p + 1, p + 1)

\* the slice s[from:to] of Python, for 0 <= from <= to <= len(s)
Slice(s, from, to) == SubSeq(s, from + 1, to)

\* str.lower()
RECURSIVE lower(_)
lower(s) ==
    IF s = "" THEN ""
    ELSE LET c == CharAt(s, 0)
         IN (IF c \in DOMAIN LowerTable THEN LowerTable[c] ELSE c)
                \o lower(Slice(s, 1, Len(s)))

\* the test `sub in s` on two strings
Contains(s, sub) ==
    \E i \in 0..(Len(s) - Len(sub)) : Slice(s, i, i + Len(sub)) = sub

\* the value None
None == [type |-> "None"]

\* a dict as a value returned to a caller that tells it from None and from a
\* namedtuple by its type
Dict(d) == [type |-> "dict", val |-> d]

(***************************************************************************)
(* The tokenizer.                                                          *)
(***************************************************************************)
Word(word, start, end) == [word |-> word, start |-> start, end |-> end]

\* The loop of split_string from position pos on.  current_word, when it is
\* not None, is the last element of ws (the code appends it at creation and
\* extends it in place); open says whether it is not None.
RECURSIVE split_loop(_, _, _, _, _)
split_loop(string, chars, pos, ws, open) ==
    IF pos >= Len(string) THEN ws
    ELSE IF CharAt(string, pos) \in chars
         THEN IF ~open
              THEN split_loop(string, chars, pos + 1,
                              Append(ws, Word(CharAt(string, pos), pos, pos)), TRUE)
              ELSE LET cur == ws[Len(ws)]
                   IN split_loop(string, chars, pos + 1,
                                 [ws EXCEPT ![Len(ws)] =
                                     Word(cur.word \o CharAt(string, pos), cur.start, pos)],
                                 TRUE)
         ELSE split_loop(string, chars, pos + 1, ws, FALSE)

\* split_string with the scan started one character late
split_string_late(string, chars) == split_loop(string, chars, 1, <<>>, FALSE)

split_string(string, chars) == split_loop(string, chars, 0, <<>>, FALSE)

(***************************************************************************)
(* The cursor locator.                                                     *)
(***************************************************************************)
\* The loop of cursor_word from the (0-based) index i on.
RECURSIVE cursor_loop(_, _, _)

\* the loop with `return i` for `return i - 1`: a cursor before a word goes
\* to that word
cursor_loop_next(ws, pos, i) ==
    IF i >= Len(ws) THEN Len(ws) - 1
    ELSE IF pos < ws[i + 1].start THEN i
    ELSE IF pos <= ws[i + 1].end THEN i
    ELSE cursor_loop(ws, pos, i + 1)

\* the loop with `cursor_pos <= word.start` for `cursor_pos < word.start`
cursor_loop_strict(ws, pos, i) ==
    IF i >= Len(ws) THEN Len(ws) - 1
    ELSE IF pos <= ws[i + 1].start THEN i - 1
    ELSE IF pos <= ws[i + 1].end THEN i
    ELSE cursor_loop(ws, pos, i + 1)

cursor_loop(ws, pos, i) ==
    IF i >= Len(ws) THEN Len(ws) - 1
    ELSE IF pos < ws[i + 1].start THEN i - 1
    ELSE IF pos <= ws[i + 1].end THEN i
    ELSE cursor_loop(ws, pos, i + 1)

cursor_word(ws, pos) == cursor_loop(ws, pos, 0)

(***************************************************************************)
(* Values and records.  A value whose run-time type the code depends on    *)
(* carries that type: a str, a number or a list of str.  A record (a card) *)
(* is a function from the names of the fields it has to such values.       *)
(***************************************************************************)
Str(s) == [type |-> "str", val |-> s]
Num(n) == [type |-> "num", val |-> n]
List(l) == [type |-> "list", val |-> l]

\* the cards catalogs are drawn from; fields other than name are optional
Cards ==
    { [name |-> Str("A"), convertedManaCost |-> Num(0), colorIdentity |-> List(<<"B">>)],
      [name |-> Str("Aa"), convertedManaCost |-> Num(1), colorIdentity |-> List(<<"B", "G">>)],
      [name |-> Str("A a"), convertedManaCost |-> Num(2)],
      [name |-> Str("Aa a"), colorIdentity |-> List(<<"C">>)],
      [name |-> Str("A aa"), convertedManaCost |-> Num(2), colorIdentity |-> List(<<>>)],
      [name |-> Str("A a a"), convertedManaCost |-> Num(3), colorIdentity |-> List(<<"W", "B">>)] }

\* update_db: the catalog is keyed by the lower-cased card name
update_db(cards) ==
    [key \in {lower(c.name.val) : c \in cards} |->
        CHOOSE c \in cards : lower(c.name.val) = key]

Catalogs == {update_db(cs) : cs \in {c \in SUBSET Cards : Cardinality(c) <= MaxCatalog}}

\* all strings over the characters cs of length at most n
RECURSIVE StringsUpTo(_, _)
StringsUpTo(cs, n) ==
    IF n = 0 THEN {""}
    ELSE LET shorter == StringsUpTo(cs, n - 1)
         IN shorter \cup {s \o c : s \in {t \in shorter : Len(t) = n - 1}, c \in cs}

\* the lines the resolver is called on
Lines == StringsUpTo(Alphabet, MaxLineLen)

\* the lines the tokenizer is called on
TokenizerLines == StringsUpTo(TokenizerAlphabet, MaxLineLen)

(***************************************************************************)
(* Lookups by name.                                                        *)
(***************************************************************************)
\* the sub-dict of d with the keys in keys
Restrict(d, keys) == [k \in keys |-> d[k]]

\* lookup_full without string.lower()
lookup_full_cased(d, string) ==
    IF string \in DOMAIN d THEN d[string] ELSE None

lookup_full(d, string) ==
    IF lower(string) \in DOMAIN d THEN d[lower(string)] ELSE None

\* lookup_in with the test of lookup_start, key.startswith(string.lower())
lookup_in_start(d, string) ==
    Restrict(d, {key \in DOMAIN d :
                    /\ Len(key) >= Len(string)
                    /\ Slice(key, 0, Len(string)) = lower(string)})

lookup_in(d, string) ==
    Restrict(d, {key \in DOMAIN d : Contains(key, lower(string))})

lookup_start(d, string) ==
    Restrict(d, {key \in DOMAIN d :
                    /\ Len(key) >= Len(string)
                    /\ Slice(key, 0, Len(string)) = lower(string)})

(***************************************************************************)
(* The name resolver.                                                      *)
(***************************************************************************)
MatchedCard(start_pos, end_pos, name) ==
    [type |-> "MatchedCard", start_pos |-> start_pos, end_pos |-> end_pos, name |-> name]

MultipleMatches(start_word, end_word, matches) ==
    [type |-> "MultipleMatches", start_word |-> start_word, end_word |-> end_word,
     matches |-> matches]

\* current_replacement(): the text of the line from the start of word
\* start_word to the end of word end_word
current_replacement(ln, ws, start_word, end_word) ==
    Slice(ln, ws[start_word + 1].start, ws[end_word + 1].end + 1)

\* `start_word, end_word, matches = result` when the nested call returned
\* MultipleMatches; otherwise the three locals keep their values
adopt(res, start_word, end_word, matches) ==
    IF res.type = "MultipleMatches"
    THEN [start_word |-> res.start_word, end_word |-> res.end_word, matches |-> res.matches]
    ELSE [start_word |-> start_word, end_word |-> end_word, matches |-> matches]

\* conclude with words[end_word].start for words[end_word].end
conclude_start(ln, ws, d, start_word, end_word, matches) ==
    LET full_match == lookup_full(d, current_replacement(ln, ws, start_word, end_word))
    IN IF full_match # None
       THEN MatchedCard(ws[start_word + 1].start, ws[end_word + 1].start, full_match.name)
       ELSE IF Cardinality(DOMAIN matches) = 1
       THEN MatchedCard(ws[start_word + 1].start, ws[end_word + 1].start,
                        matches[CHOOSE k \in DOMAIN matches : TRUE].name)
       ELSE MultipleMatches(start_word, end_word, matches)

\* conclude without the test len(matches) == 1: one of the candidates is
\* returned however many there are
conclude_any(ln, ws, d, start_word, end_word, matches) ==
    LET full_match == lookup_full(d, current_replacement(ln, ws, start_word, end_word))
    IN IF full_match # None
       THEN MatchedCard(ws[start_word + 1].start, ws[end_word + 1].end, full_match.name)
       ELSE MatchedCard(ws[start_word + 1].start, ws[end_word + 1].end,
                        matches[CHOOSE k \in DOMAIN matches : TRUE].name)

\* the end of search_words, once both directions were tried: the full match,
\* the single remaining candidate, or the candidates
conclude(ln, ws, d, start_word, end_word, matches) ==
    LET full_match == lookup_full(d, current_replacement(ln, ws, start_word, end_word))
    IN IF full_match # None
       THEN MatchedCard(ws[start_word + 1].start, ws[end_word + 1].end, full_match.name)
       ELSE IF Cardinality(DOMAIN matches) = 1
       THEN MatchedCard(ws[start_word + 1].start, ws[end_word + 1].end,
                        matches[CHOOSE k \in DOMAIN matches : TRUE].name)
       ELSE MultipleMatches(start_word, end_word, matches)

\* search_words, the recursive function nested in identify_card_name; ln and
\* ws are the line and words of the enclosing call
RECURSIVE search_words(_, _, _, _, _, _, _)
search_words(ln, ws, d, start_word, end_word, search_left, search_right) ==
    IF start_word < 0 THEN None
    ELSE IF end_word >= Len(ws) THEN None
    ELSE
      LET matches == lookup_in(d, current_replacement(ln, ws, start_word, end_word))
      IN IF DOMAIN matches = {} THEN None
         ELSE
           LET left == IF search_left
                       THEN search_words(ln, ws, matches, start_word - 1, end_word,
                                         TRUE, FALSE)
                       ELSE None
           IN IF left.type = "MatchedCard" THEN left
              ELSE
                LET l == adopt(left, start_word, end_word, matches)
                    right == IF search_right
                             THEN search_words(ln, ws, l.matches, l.start_word,
                                               l.end_word + 1, FALSE, TRUE)
                             ELSE None
                IN IF right.type = "MatchedCard" THEN right
                   ELSE
                     LET r == adopt(right, l.start_word, l.end_word, l.matches)
                     IN conclude(ln, ws, d, r.start_word, r.end_word, r.matches)

\* identify_card_name(db, line, cursor_pos): None, a MatchedCard, or the
\* dict of candidates (result.matches)
identify_card_name(d, ln, pos) ==
    LET ws == split_string(ln, word_characters)
        wi == cursor_word(ws, pos)
        res == search_words(ln, ws, d, wi, wi, TRUE, TRUE)
    IN IF res.type = "MultipleMatches" THEN Dict(res.matches) ELSE res

(***************************************************************************)
(* The resolver's specification: a loaded catalog, and one call of         *)
(* identify_card_name on a line and a cursor position.                     *)
(***************************************************************************)
Init ==
    /\ db \in Catalogs
    /\ line = ""
    /\ cursor_pos = 0
    /\ words = <<>>
    /\ word_index = -1
    /\ result = None
    /\ pred = None
    /\ rs = None
    /\ heap = <<>>
    /\ stack = <<>>
    /\ pc = "ready"

\* one call of identify_card_name; words and word_index are its two locals
IdentifyCardName ==
    /\ pc = "ready"
    /\ \E ln \in Lines, pos \in 0..MaxLineLen :
          /\ line' = ln
          /\ cursor_pos' = pos
          /\ words' = split_string(ln, word_characters)
          /\ word_index' = cursor_word(words', pos)
          /\ result' = identify_card_name(db, ln, pos)
    /\ pc' = "identified"
    /\ UNCHANGED <<db, pred, rs, heap, stack>>

Next == IdentifyCardName

Spec == Init /\ [][Next]_vars

(***************************************************************************)
(* The search predicate algebra.  The result of a call is a value, or the  *)
(* exception it raises.                                                    *)
(***************************************************************************)
\* an instance of class Result, a dict subclass
Result(d) == [type |-> "Result", val |-> d]

\* an exception raised, by its class
Raise(class) == [type |-> "raise", class |-> class]

IsRaise(x) == x.type = "raise"

\* the characters of the model in the order of their code points
CodePointOrder == " ,0123456789ABCDEFGHIJKLMNOPQRSTUVWXYZabcdefghijklmnopqrstuvwxyz"

CodePointRank(c) == CHOOSE i \in 1..Len(CodePointOrder) : CharAt(CodePointOrder, i - 1) = c

\* a < b on two str
RECURSIVE StrLess(_, _)
StrLess(a, b) ==
    IF b = "" THEN FALSE
    ELSE IF a = "" THEN TRUE
    ELSE IF CharAt(a, 0) = CharAt(b, 0)
         THEN StrLess(Slice(a, 1, Len(a)), Slice(b, 1, Len(b)))
         ELSE CodePointRank(CharAt(a, 0)) < CodePointRank(CharAt(b, 0))

\* a < b on two lists of str
RECURSIVE ListLess(_, _)
ListLess(a, b) ==
    IF b = <<>> THEN FALSE
    ELSE IF a = <<>> THEN TRUE
    ELSE IF Head(a) = Head(b) THEN ListLess(Tail(a), Tail(b))
         ELSE StrLess(Head(a), Head(b))

\* value < desired, for two values of one type
Less(value, desired) ==
    IF value.type = "num" THEN value.val < desired.val
    ELSE IF value.type = "str" THEN StrLess(value.val, desired.val)
    ELSE ListLess(value.val, desired.val)

\* a value returned by a call, as against an exception raised by it
Return(v) == [type |-> "return", val |-> v]

\* The comparison methods, as method(value, desired): the Boolean returned
\* or the exception raised.  MATCHES (a regular expression search) is not
\* modelled.
IS(value, desired) ==
    IF value.type # "str" \/ desired.type # "str" THEN Raise("AttributeError")
    ELSE Return(lower(value.val) = lower(desired.val))

\* IN without the two calls of lower()
IN_cased(value, desired) ==
    IF value.type = "list"
    THEN Return(/\ desired.type = "str"
                /\ \E i \in 1..Len(value.val) : value.val[i] = desired.val)
    ELSE IF value.type # "str" \/ desired.type # "str" THEN Raise("AttributeError")
    ELSE Return(Contains(value.val, desired.val))

\* IN (a reserved word here)
IN_(value, desired) ==
    IF value.type = "list"
    THEN Return(/\ desired.type = "str"
                /\ \E i \in 1..Len(value.val) : value.val[i] = desired.val)
    ELSE IF value.type # "str" \/ desired.type # "str" THEN Raise("AttributeError")
    ELSE Return(Contains(lower(value.val), lower(desired.val)))

LT(value, desired) ==
    IF value.type # desired.type THEN Raise("TypeError")
    ELSE Return(Less(value, desired))

LE(value, desired) ==
    IF value.type # desired.type THEN Raise("TypeError")
    ELSE Return(~Less(desired, value))

EQ(value, desired) == Return(value.type = desired.type /\ value.val = desired.val)

GE(value, desired) ==
    IF value.type # desired.type THEN Raise("TypeError")
    ELSE Return(~Less(value, desired))

GT(value, desired) ==
    IF value.type # desired.type THEN Raise("TypeError")
    ELSE Return(Less(desired, value))

\* the call method(value, desired) of a method given by its name
Compare(method, value, desired) ==
    CASE method = "IS" -> IS(value, desired)
      [] method = "IN" -> IN_(value, desired)
      [] method = "LT" -> LT(value, desired)
      [] method = "LE" -> LE(value, desired)
      [] method = "EQ" -> EQ(value, desired)
      [] method = "GE" -> GE(value, desired)
      [] method = "GT" -> GT(value, desired)

\* A predicate is the closure one of search, And, Or, Not returns: the
\* function's name and the arguments it closes over.
search(field, method, value) ==
    [op |-> "search", field |-> field, method |-> method, value |-> value]
And(conditions) == [op |-> "And", conditions |-> conditions]
Or(conditions) == [op |-> "Or", conditions |-> conditions]
Not(conditions) == [op |-> "Not", conditions |-> conditions]

\* searchPred without the test `field in v`: v[field] raises on a record that
\* lacks the field
searchPred_unguarded(p, d) ==
    LET test(k) == IF p.field \in DOMAIN d.val[k]
                   THEN Compare(p.method, d.val[k][p.field], p.value)
                   ELSE Raise("KeyError")
        raising == {k \in DOMAIN d.val : IsRaise(test(k))}
    IN IF raising # {}
       THEN test(CHOOSE k \in raising : TRUE)
       ELSE Result(Restrict(d.val, {k \in DOMAIN d.val : test(k).val}))

\* searchPred with each record cut down to the field searched
searchPred_projected(p, d) ==
    LET test(k) == IF p.field \in DOMAIN d.val[k]
                   THEN Compare(p.method, d.val[k][p.field], p.value)
                   ELSE Return(FALSE)
        raising == {k \in DOMAIN d.val : IsRaise(test(k))}
    IN IF raising # {}
       THEN test(CHOOSE k \in raising : TRUE)
       ELSE Result([k \in {k \in DOMAIN d.val : test(k).val} |->
                       [f \in {p.field} |-> d.val[k][f]]])

\* searchPred(db): the generator tests `field in v and method(v[field], value)`
\* on every item, and an exception raised by one of the tests ends the call
searchPred(p, d) ==
    LET test(k) == IF p.field \in DOMAIN d.val[k]
                   THEN Compare(p.method, d.val[k][p.field], p.value)
                   ELSE Return(FALSE)
        raising == {k \in DOMAIN d.val : IsRaise(test(k))}
    IN IF raising # {}
       THEN test(CHOOSE k \in raising : TRUE)
       ELSE Result(Restrict(d.val, {k \in DOMAIN d.val : test(k).val}))

\* Result.add(d): a copy of self updated with d
add(self, d) ==
    Result([k \in DOMAIN self.val \cup DOMAIN d.val |->
               IF k \in DOMAIN d.val THEN d.val[k] ELSE self.val[k]])

RECURSIVE Apply(_, _), andReduce(_, _, _), orReduce(_, _, _, _)

\* andPred's reduce, from the i-th condition on: each condition is applied to
\* the result of the one before
andReduce(conditions, i, res) ==
    IF i > Len(conditions) THEN res
    ELSE LET next == Apply(conditions[i], res)
         IN IF IsRaise(next) THEN next ELSE andReduce(conditions, i + 1, next)

\* orPred's reduce, from the i-th condition on: each condition is applied to
\* d and its result added to the accumulated one
orReduce(conditions, i, res, d) ==
    IF i > Len(conditions) THEN res
    ELSE LET next == Apply(conditions[i], d)
         IN IF IsRaise(next) THEN next ELSE orReduce(conditions, i + 1, add(res, next), d)

\* andPred with every condition applied to db, as orPred does, the result
\* being that of the last one
andPred_unpiped(p, d) ==
    IF p.conditions = <<>> THEN d
    ELSE LET first == andReduce(SubSeq(p.conditions, 1, Len(p.conditions) - 1), 1, d)
         IN IF IsRaise(first) THEN first
            ELSE Apply(p.conditions[Len(p.conditions)], d)

andPred(p, d) == andReduce(p.conditions, 1, d)

\* orPred with each result added to an empty Result instead of the
\* accumulated one: only the last condition's entries are kept
orPred_last(p, d) ==
    IF p.conditions = <<>> THEN Result(<<>>)
    ELSE LET first == orReduce(SubSeq(p.conditions, 1, Len(p.conditions) - 1), 1,
                               Result(<<>>), d)
             last == Apply(p.conditions[Len(p.conditions)], d)
         IN IF IsRaise(first) THEN first
            ELSE IF IsRaise(last) THEN last
            ELSE add(Result(<<>>), last)

orPred(p, d) == orReduce(p.conditions, 1, Result(<<>>), d)

\* notPred with only the first condition excluded
notPred_first(p, d) ==
    LET matches == Apply(Or(IF p.conditions = <<>> THEN <<>> ELSE <<Head(p.conditions)>>), d)
    IN IF IsRaise(matches) THEN matches
       ELSE Result(Restrict(d.val, DOMAIN d.val \ DOMAIN matches.val))

notPred(p, d) ==
    LET matches == Apply(Or(p.conditions), d)
    IN IF IsRaise(matches) THEN matches
       ELSE Result(Restrict(d.val, DOMAIN d.val \ DOMAIN matches.val))

\* the call p(d) of a predicate on a database dict or a Result
Apply(p, d) ==
    CASE p.op = "search" -> searchPred(p, d)
      [] p.op = "And" -> andPred(p, d)
      [] p.op = "Or" -> orPred(p, d)
      [] p.op = "Not" -> notPred(p, d)

(***************************************************************************)
(* The convenience predicates.  A call of one of them returns a predicate, *)
(* or raises.                                                              *)
(***************************************************************************)
\* str.upper()
RECURSIVE upper(_)
upper(s) ==
    IF s = "" THEN ""
    ELSE LET c == CharAt(s, 0)
         IN (IF c \in LowerLetters
             THEN CHOOSE u \in DOMAIN LowerTable : LowerTable[u] = c
             ELSE c)
                \o upper(Slice(s, 1, Len(s)))

\* a keyword argument name=val of a call
Keyword(name, val) == [name |-> name, val |-> val]

\* the dict `methods` of CMC
methods == ("lt" :> "LT") @@ ("le" :> "LE") @@ ("eq" :> "EQ") @@ ("ge" :> "GE") @@
           ("gt" :> "GT")

\* the call CMC(*args, **kwargs) of `def CMC(value, **kwargs)`: args are the
\* positional arguments and kwargs the keyword arguments in the order given.
\* The parameter value has to be bound, by position or by name, and is not
\* used; every other keyword that is not None gives one condition.  The
\* predicate is returned, or an exception raised.
CMC(args, kwargs) ==
    LET named == {i \in 1..Len(kwargs) : kwargs[i].name = "value"}
        IsBound(kw) == kw.name # "value" /\ kw.val # None
        bounds == SelectSeq(kwargs, IsBound)
    IN IF Len(args) > 1 \/ (Len(args) = 1 /\ named # {}) \/ (Len(args) = 0 /\ named = {})
       THEN Raise("TypeError")
       ELSE IF \E i \in 1..Len(bounds) : bounds[i].name \notin DOMAIN methods
       THEN Raise("KeyError")
       ELSE Return(And([i \in 1..Len(bounds) |->
                    search("convertedManaCost", methods[bounds[i].name], bounds[i].val)]))

\* the conditions search(field='colorIdentity', method=IN, value=c) for the
\* characters c of a string
ColourConditions(colours) ==
    [i \in 1..Len(colours) |-> search("colorIdentity", "IN", Str(CharAt(colours, i - 1)))]

ColorIdentityHas(colours) == And(ColourConditions(upper(colours)))

\* the characters of a that are not characters of b, in the order of a
RECURSIVE difference(_, _)
difference(a, b) ==
    IF a = "" THEN ""
    ELSE (IF Contains(b, CharAt(a, 0)) THEN "" ELSE CharAt(a, 0))
            \o difference(Slice(a, 1, Len(a)), b)

\* notcolours is a set, iterated in an order of the implementation's choice;
\* here in the order of 'BRGUW'
ColorIdentityOnly(colours) == Not(ColourConditions(difference("BRGUW", upper(colours))))

ColorIdentityIs(colours) == And(<<ColorIdentityHas(colours), ColorIdentityOnly(colours)>>)

(***************************************************************************)
(* Properties of the resolver, stated on the line and the catalog.         *)
(***************************************************************************)
\* the tokens of the line, once identify_card_name has split it
Toks == words

\* the (0-based) index of the cursor token: the last token that starts at or
\* before the cursor, -1 when there is none
CursorTok ==
    IF \E i \in 1..Len(Toks) : Toks[i].start <= cursor_pos
    THEN (CHOOSE i \in 1..Len(Toks) :
             /\ Toks[i].start <= cursor_pos
             /\ \A j \in (i + 1)..Len(Toks) : Toks[j].start > cursor_pos) - 1
    ELSE -1

\* the text of the line from the start of token s to the end of token e
SpanText(s, e) == Slice(line, Toks[s + 1].start, Toks[e + 1].end + 1)

\* the spans of consecutive tokens that contain the cursor token
CursorSpans ==
    IF CursorTok < 0 THEN {}
    ELSE {sp \in (0..CursorTok) \X (CursorTok..(Len(Toks) - 1)) : TRUE}

\* the keys of the catalog that contain the text t, case ignored
KeysWith(t) == {k \in DOMAIN db : Contains(k, lower(t))}

Resolved == pc = "identified" /\ result.type = "MatchedCard"

\* the token spans whose boundaries are those of a Resolved result
ResolvedSpans ==
    {sp \in CursorSpans : /\ Toks[sp[1] + 1].start = result.start_pos
                          /\ Toks[sp[2] + 1].end = result.end_pos}

\* C1: a Resolved span is the longest span of tokens around the cursor token
\* whose text is a catalog key: no such span covers more tokens.
C1_LongestNameSpan ==
    Resolved =>
        \A sp \in CursorSpans :
            lower(SpanText(sp[1], sp[2])) \in DOMAIN db =>
                \E r \in ResolvedSpans : sp[2] - sp[1] <= r[2] - r[1]

\* C2: when the text from the first token to the last is a catalog key, every
\* cursor position from the first token's start on resolves to that whole
\* span and that record's name.
C2_WholeLineName ==
    (/\ pc = "identified"
     /\ Toks # <<>>
     /\ cursor_pos >= Toks[1].start
     /\ lower(SpanText(0, Len(Toks) - 1)) \in DOMAIN db)
    => result = MatchedCard(Toks[1].start, Toks[Len(Toks)].end,
                            db[lower(SpanText(0, Len(Toks) - 1))].name)

\* whether no key of the catalog contains the cursor token widened by the
\* token on its left (right), or there is no such token
NoLeftWidening ==
    CursorTok = 0 \/ KeysWith(SpanText(CursorTok - 1, CursorTok)) = {}
NoRightWidening ==
    CursorTok = Len(Toks) - 1 \/ KeysWith(SpanText(CursorTok, CursorTok + 1)) = {}

CursorTokIsName ==
    /\ pc = "identified"
    /\ CursorTok >= 0
    /\ lower(SpanText(CursorTok, CursorTok)) \in DOMAIN db

\* C3: a cursor token that is a catalog key, with no possible widening on
\* either side, resolves to that token and that key's record.
C3_FailedWideningKeepsSpan ==
    (CursorTokIsName /\ NoLeftWidening /\ NoRightWidening)
    => result = MatchedCard(Toks[CursorTok + 1].start, Toks[CursorTok + 1].end,
                            db[lower(SpanText(CursorTok, CursorTok))].name)

\* C3's case: the cursor token is a name, it has a neighbour on each side and
\* neither widening is in any key
C3_Witness ==
    /\ CursorTokIsName /\ NoLeftWidening /\ NoRightWidening
    /\ CursorTok > 0 /\ CursorTok < Len(Toks) - 1
    /\ result.type = "MatchedCard"

\* C4: no cursor token (no token, or the cursor before the first token), or a
\* cursor token that no catalog key contains: the result is None.
C4_NoMatch ==
    (/\ pc = "identified"
     /\ \/ Toks = <<>>
        \/ cursor_pos < Toks[1].start
        \/ KeysWith(SpanText(CursorTok, CursorTok)) = {})
    => result = None

\* C4's case: the cursor is in the whitespace before a first token that is a
\* catalog key
C4_Witness ==
    /\ pc = "identified"
    /\ Toks # <<>> /\ cursor_pos < Toks[1].start
    /\ lower(SpanText(0, 0)) \in DOMAIN db
    /\ result = None

\* the outermost call of search_words
Outermost == search_words(line, Toks, db, CursorTok, CursorTok, TRUE, TRUE)

\* C5: an ambiguous result is the dict of exactly the catalog entries whose
\* key contains the text of the outermost call's final span; they are two or
\* more and none of the keys is that text.
C5_AmbiguousCandidates ==
    (pc = "identified" /\ result.type = "dict")
    => LET out == Outermost
           t == lower(SpanText(out.start_word, out.end_word))
       IN /\ out.type = "MultipleMatches"
          /\ result = Dict(Restrict(db, KeysWith(t)))
          /\ Cardinality(DOMAIN result.val) >= 2
          /\ t \notin DOMAIN result.val

\* C5's case: the span was widened and the widening narrowed the candidates,
\* which are still ambiguous
C5_Witness ==
    /\ pc = "identified" /\ result.type = "dict"
    /\ LET out == Outermost IN out.end_word > out.start_word
    /\ Cardinality(DOMAIN result.val) < Cardinality(KeysWith(SpanText(CursorTok, CursorTok)))

\* C6: a Resolved span starts at the start of a token at or before the cursor
\* token, ends at the end of a token at or after it, and lies in the line.
C6_ResolvedSpanAroundCursor ==
    Resolved =>
        /\ ResolvedSpans # {}
        /\ 0 <= result.start_pos
        /\ result.start_pos <= result.end_pos
        /\ result.end_pos < Len(line)

\* C6's case: a Resolved span of several tokens, the cursor on an inner one
C6_Witness ==
    /\ Resolved
    /\ \E sp \in ResolvedSpans : sp[1] < CursorTok /\ CursorTok < sp[2]

(***************************************************************************)
(* The tokenizer's and cursor locator's specification: split_string on a   *)
(* line, then cursor_word on its words and a cursor position.              *)
(***************************************************************************)
InitTokenizer ==
    /\ db = None
    /\ line = ""
    /\ cursor_pos = 0
    /\ words = <<>>
    /\ word_index = -1
    /\ result = None
    /\ pred = None
    /\ rs = None
    /\ heap = <<>>
    /\ stack = <<>>
    /\ pc = "ready"

SplitString ==
    /\ pc = "ready"
    /\ \E ln \in TokenizerLines :
          /\ line' = ln
          /\ words' = split_string(ln, word_characters)
    /\ pc' = "split"
    /\ UNCHANGED <<db, cursor_pos, word_index, result, pred, rs, heap, stack>>

CursorWord ==
    /\ pc = "split"
    /\ \E pos \in 0..MaxLineLen :
          /\ cursor_pos' = pos
          /\ word_index' = cursor_word(words, pos)
    /\ pc' = "located"
    /\ UNCHANGED <<db, line, words, result, pred, rs, heap, stack>>

NextTokenizer == SplitString \/ CursorWord

SpecTokenizer == InitTokenizer /\ [][NextTokenizer]_vars

\* C7: cursor_word on the words of a line is the index of the last word that
\* starts at or before the cursor, -1 when there is none: the word the cursor
\* is in, else the nearest one on its left.
C7_CursorWordIsLastStartingBefore ==
    pc = "located" =>
        /\ word_index = CursorTok
        /\ word_index \in -1..(Len(words) - 1)
        /\ \A i \in 1..Len(words) :
              (words[i].start <= cursor_pos /\ cursor_pos <= words[i].end)
                  => word_index = i - 1

\* C7's case: the cursor is in the gap between two words
C7_Witness ==
    /\ pc = "located"
    /\ word_index >= 0 /\ word_index < Len(words) - 1
    /\ cursor_pos > words[word_index + 1].end
    /\ cursor_pos < words[word_index + 2].start

\* whether the character at offset p of the line is a word character
IsWordChar(p) == CharAt(line, p) \in word_characters

\* C8: the words of a line are exactly its maximal runs of word characters,
\* from left to right.
C8_WordsAreMaximalRuns ==
    pc \in {"split", "located"} =>
        /\ \A i \in 1..Len(words) :
              LET w == words[i]
              IN /\ 0 <= w.start /\ w.start <= w.end /\ w.end < Len(line)
                 /\ w.word = Slice(line, w.start, w.end + 1)
                 /\ \A p \in w.start..w.end : IsWordChar(p)
                 /\ w.start = 0 \/ ~IsWordChar(w.start - 1)
                 /\ w.end = Len(line) - 1 \/ ~IsWordChar(w.end + 1)
        /\ \A i \in 1..(Len(words) - 1) : words[i].end < words[i + 1].start
        /\ \A p \in 0..(Len(line) - 1) :
              IsWordChar(p) =>
                  Cardinality({i \in 1..Len(words) :
                                  words[i].start <= p /\ p <= words[i].end}) = 1
        /\ (\A p \in 0..(Len(line) - 1) : ~IsWordChar(p)) => words = <<>>

\* C8's case: a line that starts with a separator and has two words, one of
\* them of several characters
C8_Witness ==
    /\ pc = "split"
    /\ Len(words) = 2
    /\ words[1].start > 0
    /\ \E i \in 1..2 : words[i].end > words[i].start

(***************************************************************************)
(* The predicate algebra's specification: a loaded catalog, and one call   *)
(* of a predicate on it.                                                   *)
(***************************************************************************)
Fields == {"name", "convertedManaCost", "colorIdentity", "text"}
Methods == {"IS", "IN", "LT", "LE", "EQ", "GE", "GT"}
Values == {Str("a"), Str("A "), Str("B"), Num(1), Num(2)}

\* every search(field, method, value)
Searches == {search(f, m, v) : f \in Fields, m \in Methods, v \in Values}

\* the searches the composed predicates are built from: a substring of the
\* name, a tag of a list, and a method that raises on the field's values
Atoms ==
    { search("name", "IN", Str("A ")),
      search("colorIdentity", "IN", Str("B")),
      search("convertedManaCost", "IS", Str("a")) }

Composers == {"And", "Or", "Not"}
Compose(op, conditions) == [op |-> op, conditions |-> conditions]

\* the atoms, their negations and the predicates composed of none or two of
\* them
Operands ==
    Atoms
    \cup {Compose(op, <<>>) : op \in Composers}
    \cup {Not(<<a>>) : a \in Atoms}
    \cup {Compose(op, <<a, b>>) : op \in Composers, a \in Atoms, b \in Atoms}

\* the predicates called: the searches, the operands, and the predicates
\* composed of one or two operands or of three atoms
Predicates ==
    Searches
    \cup Operands
    \cup {Compose(op, <<p>>) : op \in Composers, p \in Operands}
    \cup {Compose(op, <<p, q>>) : op \in Composers, p \in Operands, q \in Operands}
    \cup {Compose(op, <<a, b, c>>) : op \in Composers, a \in Atoms, b \in Atoms, c \in Atoms}

InitSearch ==
    /\ db \in Catalogs
    /\ line = ""
    /\ cursor_pos = 0
    /\ words = <<>>
    /\ word_index = -1
    /\ result = None
    /\ pred = None
    /\ rs = None
    /\ heap = <<>>
    /\ stack = <<>>
    /\ pc = "ready"

\* one call p(db)
ApplyPredicate ==
    /\ pc = "ready"
    /\ \E p \in Predicates :
          /\ pred' = p
          /\ rs' = Apply(p, Dict(db))
    /\ pc' = "applied"
    /\ UNCHANGED <<db, line, cursor_pos, words, word_index, result, heap, stack>>

\* the arguments CMC is called with: no positional argument or one, and up
\* to two keyword bounds of different names
BoundValues == {Num(1), Num(2), None}
CMCArgs == {<<>>, <<None>>, <<Num(2)>>}
CMCKeywords == {Keyword(n, v) : n \in DOMAIN methods, v \in BoundValues}
CMCKwargs ==
    {<<>>} \cup {<<a>> : a \in CMCKeywords}
           \cup {kw \in {<<a, b>> : a \in CMCKeywords, b \in CMCKeywords} :
                     kw[1].name # kw[2].name}

\* one call CMC(*args, **kwargs)(db): the construction of the predicate may
\* raise, and so may its call
CallCMC ==
    /\ pc = "ready"
    /\ \E args \in CMCArgs, kwargs \in CMCKwargs :
          LET p == CMC(args, kwargs)
          IN /\ pred' = [op |-> "CMC", args |-> args, kwargs |-> kwargs]
             /\ rs' = IF IsRaise(p) THEN p ELSE Apply(p.val, Dict(db))
    /\ pc' = "cmc"
    /\ UNCHANGED <<db, line, cursor_pos, words, word_index, result, heap, stack>>

\* the strings of colour tags the colour predicates are called with
Colours == {"", "B", "G", "C", "b", "BG", "WB", "CB", "BGRUW"}
ColourPredicates == {"ColorIdentityHas", "ColorIdentityOnly", "ColorIdentityIs"}

\* one call ColorIdentityHas(colours)(db), or of Only, or of Is
CallColorIdentity ==
    /\ pc = "ready"
    /\ \E f \in ColourPredicates, colours \in Colours :
          LET p == CASE f = "ColorIdentityHas" -> ColorIdentityHas(colours)
                     [] f = "ColorIdentityOnly" -> ColorIdentityOnly(colours)
                     [] f = "ColorIdentityIs" -> ColorIdentityIs(colours)
          IN /\ pred' = [op |-> f, colours |-> colours]
             /\ rs' = Apply(p, Dict(db))
    /\ pc' = "colour"
    /\ UNCHANGED <<db, line, cursor_pos, words, word_index, result, heap, stack>>

NextSearch == ApplyPredicate \/ CallCMC \/ CallColorIdentity

SpecSearch == InitSearch /\ [][NextSearch]_vars

\* whether the record under key k has the field of the search called, and
\* what the method of the search gives on it
HasField(k) == pred.field \in DOMAIN db[k]
MethodOn(k) == Compare(pred.method, db[k][pred.field], pred.value)

\* C9: search(field, method, value) on the catalog returns exactly the
\* entries that have the field and on whose value the method holds; only a
\* record that has the field can make the call raise, a record that lacks it
\* is left out.
C9_SearchFiltersByField ==
    (pc = "applied" /\ pred.op = "search") =>
        IF \E k \in DOMAIN db : HasField(k) /\ IsRaise(MethodOn(k))
        THEN IsRaise(rs)
        ELSE rs = Result(Restrict(db, {k \in DOMAIN db : HasField(k) /\ MethodOn(k).val}))

\* C9's case: one record lacks the field, another has it and matches
C9_Witness ==
    /\ pc = "applied" /\ pred.op = "search"
    /\ rs.type = "Result"
    /\ \E k \in DOMAIN db : ~HasField(k)
    /\ \E k \in DOMAIN db : HasField(k) /\ k \in DOMAIN rs.val
    /\ \E k \in DOMAIN db : HasField(k) /\ k \notin DOMAIN rs.val

\* q(x), where x is the outcome of an earlier call
Then(x, q) == IF IsRaise(x) THEN x ELSE Apply(q, x)

\* the intersection of two independently computed outcomes
Intersection(x, y) ==
    IF IsRaise(x) THEN x
    ELSE IF IsRaise(y) THEN y
    ELSE Result(Restrict(db, DOMAIN x.val \cap DOMAIN y.val))

\* whether two outcomes are the same exception or equal mappings
SameOutcome(x, y) ==
    IF IsRaise(x) \/ IsRaise(y) THEN x = y ELSE x.val = y.val

AndOfTwo == pc = "applied" /\ pred.op = "And" /\ Len(pred.conditions) = 2

OutcomesOn(x) == [i \in 1..Len(pred.conditions) |-> Apply(pred.conditions[i], x)]

\* the predicate called with its conditions in the order given by perm
Permuted(perm) ==
    Compose(pred.op, [i \in 1..Len(pred.conditions) |-> pred.conditions[perm[i]]])

\* whether two outcomes both raise, or are equal mappings
SameResult(x, y) ==
    IF IsRaise(x) \/ IsRaise(y) THEN IsRaise(x) /\ IsRaise(y) ELSE x.val = y.val

OrCalled == pc = "applied" /\ pred.op = "Or"

\* C11: Or(p1..pn)(db) is the union of the pi(db), each evaluated on db
\* itself (the empty Result for no pi); it raises exactly when some pi(db)
\* raises, and then what the first such pi raises.  Or(p, p)(db) is
\* Or(p)(db), and the result is the same for every order of the operands.
C11_OrIsUnion ==
    OrCalled =>
        LET n == Len(pred.conditions)
            out == OutcomesOn(Dict(db))
            raising == {i \in 1..n : IsRaise(out[i])}
        IN /\ IF raising # {}
              THEN rs = out[CHOOSE i \in raising : \A j \in raising : i <= j]
              ELSE /\ rs.type = "Result"
                   /\ DOMAIN rs.val = UNION {DOMAIN out[i].val : i \in 1..n}
                   /\ \A i \in 1..n : \A k \in DOMAIN out[i].val : rs.val[k] = out[i].val[k]
           /\ (n = 0) => rs = Result(<<>>)
           /\ (n = 2 /\ pred.conditions[1] = pred.conditions[2]) =>
                 rs = Apply(Or(<<pred.conditions[1]>>), Dict(db))
           /\ (n = 2) => SameResult(rs, Apply(Permuted(<<2, 1>>), Dict(db)))
           /\ (n = 3) => /\ SameResult(rs, Apply(Permuted(<<3, 2, 1>>), Dict(db)))
                         /\ SameResult(rs, Apply(Permuted(<<2, 3, 1>>), Dict(db)))
                         /\ SameResult(rs, Apply(Permuted(<<2, 1, 3>>), Dict(db)))

\* C11's case: two operands that each return an entry the other does not
C11_Witness ==
    /\ OrCalled /\ Len(pred.conditions) = 2
    /\ LET out == OutcomesOn(Dict(db))
       IN /\ ~IsRaise(out[1]) /\ ~IsRaise(out[2])
          /\ DOMAIN out[1].val \ DOMAIN out[2].val # {}
          /\ DOMAIN out[2].val \ DOMAIN out[1].val # {}
          /\ DOMAIN rs.val # DOMAIN db

\* the entries of the mapping x whose key no outcome of outs has
Complement(x, outs) ==
    Restrict(x, {k \in DOMAIN x : \A i \in DOMAIN outs : k \notin DOMAIN outs[i].val})

NotCalled == pc = "applied" /\ pred.op = "Not"

\* And(p, Not(q1..qn)) called
NotInAndCalled ==
    /\ pc = "applied" /\ pred.op = "And" /\ Len(pred.conditions) = 2
    /\ pred.conditions[2].op = "Not"

\* C12: Not(p1..pn)(db) is the entries of db whose key is not in
\* Or(p1..pn)(db), so that the two are disjoint and their union is db; it
\* raises when Or(p1..pn)(db) does.  In And(p, Not(q1..qn))(db) the
\* complement is taken within p(db), the set And hands to Not.
C12_NotIsRelativeComplement ==
    /\ NotCalled =>
          LET o == Apply(Or(pred.conditions), Dict(db))
              out == OutcomesOn(Dict(db))
          IN IF IsRaise(o) THEN rs = o
             ELSE /\ rs = Result(Complement(db, out))
                  /\ DOMAIN rs.val = DOMAIN db \ DOMAIN o.val
                  /\ DOMAIN rs.val \cap DOMAIN o.val = {}
                  /\ add(rs, o).val = db
    /\ NotInAndCalled =>
          LET x == Apply(pred.conditions[1], Dict(db))
              q == pred.conditions[2].conditions
          IN ~IsRaise(x) =>
                LET out == [i \in 1..Len(q) |-> Apply(q[i], x)]
                IN IF \E i \in 1..Len(q) : IsRaise(out[i]) THEN IsRaise(rs)
                   ELSE rs.val = Complement(x.val, out)

\* C12's case: Not of two operands that each return an entry the other
\* does not, on a catalog with an entry neither returns
C12_Witness ==
    /\ NotCalled /\ Len(pred.conditions) = 2
    /\ LET out == OutcomesOn(Dict(db))
       IN /\ ~IsRaise(out[1]) /\ ~IsRaise(out[2])
          /\ DOMAIN out[1].val \ DOMAIN out[2].val # {}
          /\ DOMAIN out[2].val \ DOMAIN out[1].val # {}
          /\ rs.type = "Result" /\ DOMAIN rs.val # {}

\* a predicate was called on the catalog: one given as such, or one that a
\* convenience predicate made
Called == pc \in {"applied", "cmc", "colour"}

\* C13: the keys of the Result a predicate returns are keys of the catalog,
\* each with the record the catalog has under it.
C13_ResultIsSubMapping ==
    (Called /\ ~IsRaise(rs)) =>
        /\ DOMAIN rs.val \subseteq DOMAIN db
        /\ \A k \in DOMAIN rs.val : rs.val[k] = db[k]

\* C13's case: a predicate composed of composed predicates returns some of
\* the entries of the catalog and not others
C13_Witness ==
    /\ pc = "applied" /\ pred.op \in Composers
    /\ Len(pred.conditions) = 2
    /\ pred.conditions[1].op \in Composers /\ pred.conditions[2].op \in Composers
    /\ ~IsRaise(rs)
    /\ DOMAIN rs.val # {} /\ DOMAIN rs.val # DOMAIN db

\* And(p, Not(q)) on a catalog with an entry that neither p nor q returns:
\* the complement within the catalog has it, the complement within p(db) not
NestedNotNarrowed ==
    /\ NotInAndCalled /\ ~IsRaise(rs)
    /\ LET x == Apply(pred.conditions[1], Dict(db))
           o == Apply(Or(pred.conditions[2].conditions), Dict(db))
       IN /\ ~IsRaise(o)
          /\ DOMAIN rs.val # {}
          /\ (DOMAIN db \ DOMAIN o.val) \ DOMAIN x.val # {}

\* C14: a predicate called on the catalog returns a new Result object, not
\* the catalog it was given.  (The catalog is the one object of class dict:
\* every object a predicate constructs is a Result, so that a returned dict
\* is the catalog itself.)
C14_ResultIsNewObject ==
    (Called /\ ~IsRaise(rs)) => (rs.type = "Result" /\ rs # Dict(db))

\* whether the number n satisfies the bound of the given name
Satisfies(n, name, bound) ==
    CASE name = "lt" -> n < bound
      [] name = "le" -> n <= bound
      [] name = "eq" -> n = bound
      [] name = "ge" -> n >= bound
      [] name = "gt" -> n > bound

\* the entries of the catalog that have a convertedManaCost within every
\* bound of kwargs that is not None
WithinBounds(kwargs) ==
    Restrict(db, {k \in DOMAIN db :
                    /\ "convertedManaCost" \in DOMAIN db[k]
                    /\ \A i \in 1..Len(kwargs) :
                          kwargs[i].val # None =>
                              Satisfies(db[k].convertedManaCost.val, kwargs[i].name,
                                        kwargs[i].val.val)})

\* C16: CMC called with keyword bounds only, as in CMC(le=2), gives a
\* predicate that returns exactly the records that have a convertedManaCost
\* satisfying every bound that is not None.
C16_CMCFiltersByBounds ==
    (pc = "cmc" /\ pred.args = <<>>) =>
        /\ rs.type = "Result"
        /\ rs.val = WithinBounds(pred.kwargs)

\* CMC called with a positional argument and at least one bound that is not
\* None returns the records within the bounds
CMCWithValueFiltersByBounds ==
    (/\ pc = "cmc" /\ Len(pred.args) = 1
     /\ \E i \in 1..Len(pred.kwargs) : pred.kwargs[i].val # None) =>
        rs = Result(WithinBounds(pred.kwargs))

\* the set of the colour tags of the record under key k: those of its
\* colorIdentity list, none for a record without one
Tags(k) ==
    IF "colorIdentity" \in DOMAIN db[k]
    THEN {db[k].colorIdentity.val[i] : i \in 1..Len(db[k].colorIdentity.val)}
    ELSE {}

\* the set of the tags a string of colours gives, in upper case
Given(colours) == {CharAt(upper(colours), i - 1) : i \in 1..Len(colours)}

\* C17: ColorIdentityOnly(colours) returns exactly the records with no tag
\* outside the given set, and ColorIdentityIs(colours) exactly the records
\* whose set of tags is the given set, the tags being letters of 'BGRUWC'.
C17_ColorIdentityOnlyAndIs ==
    /\ (pc = "colour" /\ pred.op = "ColorIdentityOnly") =>
          rs = Result(Restrict(db, {k \in DOMAIN db : Tags(k) \subseteq Given(pred.colours)}))
    /\ (pc = "colour" /\ pred.op = "ColorIdentityIs") =>
          /\ rs = Apply(And(<<ColorIdentityHas(pred.colours),
                              ColorIdentityOnly(pred.colours)>>), Dict(db))
          /\ rs = Result(Restrict(db, {k \in DOMAIN db : Tags(k) = Given(pred.colours)}))

(***************************************************************************)
(* Objects.  The catalog is one dict object, and every call that           *)
(* constructs a Result adds an object to the heap: heap[i] is the mapping  *)
(* of the i-th Result constructed.  A reference is 0 for the catalog and i *)
(* for the i-th Result.                                                    *)
(***************************************************************************)
MaxObjects == 2

\* the mapping of the object a reference names
Deref(h, ref) == IF ref = 0 THEN db ELSE h[ref]

\* the object a reference names, as a predicate is given it: a predicate
\* that returns its input returns this very value, with its id
Object(h, ref) ==
    IF ref = 0 THEN [type |-> "dict", val |-> db, id |-> 0]
    ELSE [type |-> "Result", val |-> h[ref], id |-> ref]

\* copy that returns self, not a copy of it
copy_self(h, self) == [heap |-> h, ref |-> self]

\* Result.copy: a new Result with the items of self
copy(h, self) == [heap |-> Append(h, h[self]), ref |-> Len(h) + 1]

\* dict.update: the object new takes the items of the mapping d, in place
update(h, new, d) ==
    [h EXCEPT ![new] = [k \in DOMAIN h[new] \cup DOMAIN d |->
                           IF k \in DOMAIN d THEN d[k] ELSE h[new][k]]]

\* Result.add on objects: new = self.copy(); new.update(d); return new
add_on(h, self, d) ==
    LET new == copy(h, self)
    IN [heap |-> update(new.heap, new.ref, d), ref |-> new.ref]

(***************************************************************************)
(* The frame specification: any sequence of calls on the catalog and on    *)
(* the Results constructed so far.  Besides db and heap, the variables     *)
(* hold the last call and what it returned.                                *)
(***************************************************************************)
FramePredicates ==
    Atoms \cup {Compose(op, <<>>) : op \in Composers}
          \cup {Or(<<search("name", "IN", Str("A ")), search("colorIdentity", "IN", Str("B"))>>),
                Not(<<search("name", "IN", Str("A "))>>),
                And(<<And(<<>>)>>)}
FrameStrings == {"a", "A a"}
FrameLines == {"A a", " aa"}

\* the catalogs of the frame specification: those of the cards of one or two
\* words
FrameCatalogs ==
    {update_db(cs) : cs \in SUBSET {c \in Cards : Len(c.name.val) <= 3}}

InitFrame ==
    /\ db \in FrameCatalogs
    /\ line = ""
    /\ cursor_pos = 0
    /\ words = <<>>
    /\ word_index = -1
    /\ result = None
    /\ pred = None
    /\ rs = None
    /\ heap = <<>>
    /\ stack = <<>>
    /\ pc = "ready"

\* no tokenizer or resolver call is the last call
NoLine == line' = "" /\ cursor_pos' = 0 /\ words' = <<>> /\ word_index' = -1

\* p(x) for a predicate p and an object x: the object returned is x itself
\* or a new Result
FramePredicate ==
    /\ Len(heap) < MaxObjects
    /\ \E p \in FramePredicates, x \in 0..Len(heap) :
          LET out == Apply(p, Object(heap, x))
          IN /\ pred' = [op |-> "call", p |-> p, x |-> x]
             /\ IF IsRaise(out) \/ "id" \in DOMAIN out
                THEN heap' = heap /\ rs' = out
                ELSE /\ heap' = Append(heap, out.val)
                     /\ rs' = Object(heap', Len(heap'))
    /\ pc' = "called"
    /\ NoLine /\ result' = None
    /\ UNCHANGED <<db, stack>>

\* self.add(d) for two objects: the catalog, a dict, has no method add
FrameAdd ==
    /\ Len(heap) < MaxObjects
    /\ \E self \in 0..Len(heap), d \in 0..Len(heap) :
          /\ pred' = [op |-> "add", self |-> self, d |-> d]
          /\ IF self = 0
             THEN heap' = heap /\ rs' = Raise("AttributeError")
             ELSE LET r == add_on(heap, self, Deref(heap, d))
                  IN heap' = r.heap /\ rs' = Object(heap', r.ref)
    /\ pc' = "added"
    /\ NoLine /\ result' = None
    /\ UNCHANGED <<db, stack>>

\* lookup_full, lookup_start or lookup_in on an object and a string
FrameLookup ==
    /\ \E f \in {"lookup_full", "lookup_start", "lookup_in"}, x \in 0..Len(heap),
          string \in FrameStrings :
          /\ pred' = [op |-> f, x |-> x, string |-> string]
          /\ result' = CASE f = "lookup_full" -> lookup_full(Deref(heap, x), string)
                          [] f = "lookup_start" -> Dict(lookup_start(Deref(heap, x), string))
                          [] f = "lookup_in" -> Dict(lookup_in(Deref(heap, x), string))
    /\ pc' = "looked up"
    /\ NoLine /\ rs' = None
    /\ UNCHANGED <<db, heap, stack>>

\* split_string on a line, and cursor_word on its words
FrameTokenize ==
    /\ \E ln \in FrameLines :
          \E pos \in 0..Len(ln) :
             /\ line' = ln
             /\ cursor_pos' = pos
             /\ words' = split_string(ln, word_characters)
             /\ word_index' = cursor_word(words', pos)
    /\ pc' = "tokenized"
    /\ pred' = None /\ rs' = None /\ result' = None
    /\ UNCHANGED <<db, heap, stack>>

\* identify_card_name on the catalog
FrameIdentify ==
    /\ \E ln \in FrameLines :
          \E pos \in 0..Len(ln) :
             /\ line' = ln
             /\ cursor_pos' = pos
             /\ words' = split_string(ln, word_characters)
             /\ word_index' = cursor_word(words', pos)
             /\ result' = identify_card_name(db, ln, pos)
    /\ pc' = "identified"
    /\ pred' = None /\ rs' = None
    /\ UNCHANGED <<db, heap, stack>>

NextFrame == FramePredicate \/ FrameAdd \/ FrameLookup \/ FrameTokenize \/ FrameIdentify

SpecFrame == InitFrame /\ [][NextFrame]_vars

\* C15: no call changes the catalog, its keys or its records, and no call
\* changes a Result that exists when it is made, the one it is given
\* included: every call leaves db and the objects of the heap as they were.
C15_CatalogAndInputsUnchanged ==
    [][/\ db' = db
       /\ Len(heap') >= Len(heap)
       /\ \A i \in 1..Len(heap) : heap'[i] = heap[i]]_vars

\* C15's case: add was called on a Result with entries and a mapping with
\* an entry the Result does not have
C15_Witness ==
    /\ pc = "added" /\ pred.self # 0
    /\ heap[pred.self] # <<>>
    /\ DOMAIN Deref(heap, pred.d) \ DOMAIN heap[pred.self] # {}
    /\ rs.id # pred.self

\* add on objects returns an object with the mapping add gives on values
AddAgrees ==
    (pc = "added" /\ pred.self # 0) =>
        rs.val = add(Result(heap[pred.self]), Result(Deref(heap, pred.d))).val

(***************************************************************************)
(* identify_card_name step by step.  The stack holds one frame for every   *)
(* call of search_words that has not returned, the innermost last: the     *)
(* arguments of the call, its locals, and the place it has reached.        *)
(* result holds what the last call that returned has returned.             *)
(***************************************************************************)
\* in place of the result of a call that was not made
NotCalled_ == [type |-> "not called"]

\* the frame of a call search_words(d, start_word, end_word, search_left,
\* search_right) made by the call statement via: that of the last lines of
\* identify_card_name ("top"), or the left or the right one of search_words
Frame(d, start_word, end_word, search_left, search_right, via) ==
    [d |-> d, start_word |-> start_word, end_word |-> end_word,
     search_left |-> search_left, search_right |-> search_right,
     matches |-> None, left |-> NotCalled_,
     at |-> "entry", via |-> via, called_with |-> <<start_word, end_word>>]

\* the call that widens to the left with the span it was called with
left_call_same(f) == Frame(f.matches, f.start_word, f.end_word, TRUE, FALSE, "left")

\* search_words(matches, start_word - 1, end_word, search_right=False)
left_call(f) == Frame(f.matches, f.start_word - 1, f.end_word, TRUE, FALSE, "left")

\* search_words(matches, start_word, end_word + 1, search_left=False)
right_call(f) == Frame(f.matches, f.start_word, f.end_word + 1, FALSE, TRUE, "right")

Top == stack[Len(stack)]
Pop == SubSeq(stack, 1, Len(stack) - 1)
SetTop(f) == [stack EXCEPT ![Len(stack)] = f]

\* the lines of the step by step specification
StepLines == StringsUpTo({"a", " "}, MaxLineLen)

\* its catalogs: those of four cards of one, two and three words
StepCatalogs ==
    {update_db(cs) :
        cs \in {c \in SUBSET {c \in Cards : c.name.val \in {"A", "A a", "Aa a", "A a a"}} :
                   Cardinality(c) <= MaxCatalog}}

InitSteps ==
    /\ db \in StepCatalogs
    /\ line = ""
    /\ cursor_pos = 0
    /\ words = <<>>
    /\ word_index = -1
    /\ result = None
    /\ pred = None
    /\ rs = None
    /\ heap = <<>>
    /\ stack = <<>>
    /\ pc = "ready"

\* identify_card_name up to its call search_words(db, word_index, word_index)
Start ==
    /\ pc = "ready"
    /\ \E ln \in StepLines, pos \in 0..MaxLineLen :
          /\ line' = ln
          /\ cursor_pos' = pos
          /\ words' = split_string(ln, word_characters)
          /\ word_index' = cursor_word(words', pos)
          /\ stack' = <<Frame(db, word_index', word_index', TRUE, TRUE, "top")>>
    /\ pc' = "running"
    /\ UNCHANGED <<db, result, pred, rs, heap>>

\* the two bounds tests, and the lookup of the span's text
Enter ==
    /\ pc = "running" /\ Top.at = "entry"
    /\ IF Top.start_word < 0 \/ Top.end_word >= Len(words)
       THEN /\ result' = None /\ stack' = Pop /\ pc' = "returning"
       ELSE LET matches == lookup_in(Top.d, current_replacement(line, words,
                                               Top.start_word, Top.end_word))
            IN IF DOMAIN matches = {}
               THEN /\ result' = None /\ stack' = Pop /\ pc' = "returning"
               ELSE /\ stack' = SetTop([Top EXCEPT !.matches = matches, !.at = "left"])
                    /\ UNCHANGED <<result, pc>>
    /\ UNCHANGED <<db, line, cursor_pos, words, word_index, pred, rs, heap>>

\* `if search_left:` and the call of its first line
CallLeft ==
    /\ pc = "running" /\ Top.at = "left" /\ Top.search_left
    /\ stack' = Append(SetTop([Top EXCEPT !.at = "left called"]), left_call(Top))
    /\ UNCHANGED <<db, line, cursor_pos, words, word_index, result, pred, rs, pc, heap>>

SkipLeft ==
    /\ pc = "running" /\ Top.at = "left" /\ ~Top.search_left
    /\ stack' = SetTop([Top EXCEPT !.at = "right"])
    /\ UNCHANGED <<db, line, cursor_pos, words, word_index, result, pred, rs, pc, heap>>

\* what a caller does with the result of its left call (to = "right") or of
\* its right call (to = "end"): return it, adopt it, or go on
After(to) ==
    IF result.type = "MatchedCard"
    THEN /\ stack' = Pop /\ UNCHANGED <<result, pc>>
    ELSE LET a == adopt(result, Top.start_word, Top.end_word, Top.matches)
         IN /\ stack' = SetTop([Top EXCEPT !.start_word = a.start_word,
                                             !.end_word = a.end_word,
                                             !.matches = a.matches,
                                             !.left = IF to = "right" THEN result ELSE @,
                                             !.at = to])
            /\ pc' = "running"
            /\ UNCHANGED result

AfterLeft ==
    /\ pc = "returning" /\ stack # <<>> /\ Top.at = "left called"
    /\ After("right")
    /\ UNCHANGED <<db, line, cursor_pos, words, word_index, pred, rs, heap>>

\* `if search_right:` and the call of its first line
CallRight ==
    /\ pc = "running" /\ Top.at = "right" /\ Top.search_right
    /\ stack' = Append(SetTop([Top EXCEPT !.at = "right called"]), right_call(Top))
    /\ UNCHANGED <<db, line, cursor_pos, words, word_index, result, pred, rs, pc, heap>>

SkipRight ==
    /\ pc = "running" /\ Top.at = "right" /\ ~Top.search_right
    /\ stack' = SetTop([Top EXCEPT !.at = "end"])
    /\ UNCHANGED <<db, line, cursor_pos, words, word_index, result, pred, rs, pc, heap>>

AfterRight ==
    /\ pc = "returning" /\ stack # <<>> /\ Top.at = "right called"
    /\ After("end")
    /\ UNCHANGED <<db, line, cursor_pos, words, word_index, pred, rs, heap>>

\* the end of search_words: the full match, the single candidate, or the
\* candidates
Conclude ==
    /\ pc = "running" /\ Top.at = "end"
    /\ result' = conclude(line, words, Top.d, Top.start_word, Top.end_word, Top.matches)
    /\ stack' = Pop
    /\ pc' = "returning"
    /\ UNCHANGED <<db, line, cursor_pos, words, word_index, pred, rs, heap>>

\* the last lines of identify_card_name
Finish ==
    /\ pc = "returning" /\ stack = <<>>
    /\ result' = IF result.type = "MultipleMatches" THEN Dict(result.matches) ELSE result
    /\ pc' = "done"
    /\ UNCHANGED <<db, line, cursor_pos, words, word_index, pred, rs, heap, stack>>

NextSteps ==
    \/ Start \/ Enter \/ CallLeft \/ SkipLeft \/ AfterLeft
    \/ CallRight \/ SkipRight \/ AfterRight \/ Conclude \/ Finish

SpecSteps == InitSteps /\ [][NextSteps]_vars

\* a call that is being executed goes on being executed
SpecStepsFair == SpecSteps /\ WF_vars(NextSteps)

\* the steps return what the function search_words, as an operator, gives
StepsAgree == (pc = "done") => result = identify_card_name(db, line, cursor_pos)

\* the places in the stack of the calls search_words has made and that have
\* not returned; the caller of the call at i is at i - 1
Nested == 2..Len(stack)

\* the span and the candidates a caller goes on with after its left call
AfterLeftCall(caller) ==
    IF caller.left.type = "MultipleMatches"
    THEN [start_word |-> caller.left.start_word, end_word |-> caller.left.end_word,
          matches |-> caller.left.matches]
    ELSE [start_word |-> caller.called_with[1], end_word |-> caller.called_with[2],
          matches |-> lookup_in(caller.d, current_replacement(line, words,
                                    caller.called_with[1], caller.called_with[2]))]

\* the left call is made on the caller's candidates and the span one word
\* further left; the right call after the left one has returned, on the
\* span and the candidates adopted from it when it was ambiguous
CallsInOrder ==
    \A i \in Nested :
        LET f == stack[i]
            caller == stack[i - 1]
        IN /\ f.via = "left" =>
                 /\ caller.left = NotCalled_
                 /\ f.called_with = <<caller.called_with[1] - 1, caller.called_with[2]>>
                 /\ f.d = caller.matches
           /\ f.via = "right" =>
                 /\ caller.search_left => caller.left # NotCalled_
                 /\ f.called_with = <<AfterLeftCall(caller).start_word,
                                      AfterLeftCall(caller).end_word + 1>>
                 /\ f.d = AfterLeftCall(caller).matches

\* C18: the call that widens to the left runs with leftward recursion
\* disabled and rightward recursion allowed, and the call that widens to the
\* right with rightward recursion disabled; the left call comes before the
\* right one, which starts from the span and the candidates adopted from an
\* ambiguous left result.
C18_NestedCallFlags ==
    /\ CallsInOrder
    /\ \A i \in Nested :
          /\ stack[i].via = "left" => (~stack[i].search_left /\ stack[i].search_right)
          /\ stack[i].via = "right" => ~stack[i].search_right

\* the flags as the code passes them: the left call goes on to the left
\* only, the right call to the right only
NestedCallFlagsAsCoded ==
    /\ CallsInOrder
    /\ \A i \in Nested :
          /\ stack[i].via = "left" => (stack[i].search_left /\ ~stack[i].search_right)
          /\ stack[i].via = "right" => (~stack[i].search_left /\ stack[i].search_right)

\* the number of words of a span
Width(start_word, end_word) == end_word - start_word + 1

\* whether a call with this span returns at one of the two bounds tests
OutOfBounds(span) == span[1] < 0 \/ span[2] >= Len(words)

\* the measure of C19 on the calls that have not returned
WiderByOneAndBounded ==
    /\ \A i \in Nested :
          Width(stack[i].called_with[1], stack[i].called_with[2])
              = Width(stack[i - 1].start_word, stack[i - 1].end_word) + 1
    /\ \A i \in 1..Len(stack) :
          IF OutOfBounds(stack[i].called_with)
          THEN i = Len(stack) /\ stack[i].at = "entry"
          ELSE i <= Len(words)
    /\ Len(stack) <= Len(words) + 1

\* C19: identify_card_name terminates: every call search_words makes has a
\* span one word wider than its caller's span at the time of the call, a
\* call with a span out of bounds returns without calling, the depth of the
\* calls is at most the number of words of the line, plus one for a call
\* out of bounds, and the call of identify_card_name returns.
C19_Terminates == []WiderByOneAndBounded /\ <>(pc = "done")

\* C19's case: on a line of three words the calls are four deep, the
\* innermost out of bounds
C19_Witness ==
    /\ Len(words) = 3 /\ Len(stack) = 4
    /\ OutOfBounds(Top.called_with)

(***************************************************************************)
(* The lookups of the resolver, called on the catalog and a text.          *)
(***************************************************************************)
InitLookup ==
    /\ db \in Catalogs
    /\ line = ""
    /\ cursor_pos = 0
    /\ words = <<>>
    /\ word_index = -1
    /\ result = None
    /\ pred = None
    /\ rs = None
    /\ heap = <<>>
    /\ stack = <<>>
    /\ pc = "ready"

\* one call lookup_full(db, string)
LookupFull ==
    /\ pc = "ready"
    /\ \E string \in Lines :
          /\ pred' = [op |-> "lookup_full", string |-> string]
          /\ result' = lookup_full(db, string)
    /\ pc' = "looked up"
    /\ UNCHANGED <<db, line, cursor_pos, words, word_index, rs, heap, stack>>

\* one call lookup_in(db, string)
LookupIn ==
    /\ pc = "ready"
    /\ \E string \in Lines :
          /\ pred' = [op |-> "lookup_in", string |-> string]
          /\ result' = Dict(lookup_in(db, string))
    /\ pc' = "looked up"
    /\ UNCHANGED <<db, line, cursor_pos, words, word_index, rs, heap, stack>>

NextLookup == LookupFull \/ LookupIn

SpecLookup == InitLookup /\ [][NextLookup]_vars

\* every key of the catalog is the lower-cased name of its record
KeyedByLowerName == \A k \in DOMAIN db : k = lower(db[k].name.val)

\* search(field='name', method=..., value=string)(db) for the text looked up
NameSearch(method) == Apply(search("name", method, Str(pred.string)), Dict(db))

\* C20: on a catalog keyed by the lower-cased names, lookup_in(db, s) has
\* the entries of search(field='name', method=IN, value=s)(db), and
\* lookup_full(db, s) returns a record exactly when
\* search(field='name', method=IS, value=s)(db) is not empty, and then its
\* one record.
C20_LookupsAreNameSearches ==
    (pc = "looked up" /\ KeyedByLowerName) =>
        /\ pred.op = "lookup_in" =>
              /\ ~IsRaise(NameSearch("IN"))
              /\ result.val = NameSearch("IN").val
        /\ pred.op = "lookup_full" =>
              /\ ~IsRaise(NameSearch("IS"))
              /\ (result # None) <=> (DOMAIN NameSearch("IS").val # {})
              /\ (result # None) =>
                    /\ Cardinality(DOMAIN NameSearch("IS").val) = 1
                    /\ \A k \in DOMAIN NameSearch("IS").val : NameSearch("IS").val[k] = result

\* C20's case: a text with a capital that is in some of the keys of the
\* catalog once lower-cased, and in one as it is
C20_Witness ==
    /\ pc = "looked up" /\ pred.op = "lookup_in"
    /\ pred.string # lower(pred.string)
    /\ DOMAIN result.val # {} /\ DOMAIN result.val # DOMAIN db
    /\ lookup_full(db, pred.string) # None

\* the text of the line a Resolved result delimits, lower-cased
ResolvedText == lower(Slice(line, result.start_pos, result.end_pos + 1))

\* C21: the name of a Resolved result is the name of a catalog record whose
\* key contains the lower-cased text line[start_pos..end_pos]; that key is
\* this text, or it is the only key of the catalog that contains it.
C21_ResolvedNameIsCandidate ==
    Resolved =>
        \E k \in DOMAIN db :
            /\ Contains(k, ResolvedText)
            /\ result.name = db[k].name
            /\ (k = ResolvedText \/ KeysWith(ResolvedText) = {k})

\* C21's case: a truncated name: the text of a span of several words is not
\* a key, and of the keys of the catalog one only contains it
C21_Witness ==
    /\ Resolved
    /\ ResolvedText \notin DOMAIN db
    /\ Cardinality(DOMAIN db) >= 2
    /\ \E sp \in ResolvedSpans : sp[1] < sp[2]

====
